---- MODULE Spec2Model ----
(***************************************************************************)
(* Model of the CompressAI-Trainer runners                                 *)
(* (compressai_train/runners/base.py, image_compression.py).               *)
(*                                                                         *)
(* The runner is a callback-driven controller: an orchestration loop calls *)
(* one hook at a time (on_experiment_start, on_epoch_start,                *)
(* on_loader_start, handle_batch, on_loader_end, on_epoch_end,             *)
(* on_experiment_end).  Every hook is one action here.  The calls a hook   *)
(* makes on its collaborators (model, criterion, optimizers, loggers) are  *)
(* recorded, in program order, in the variable `trace`.                    *)
(*                                                                         *)
(* Numbers: metric values are exact rationals <<num, den>> with den > 0,   *)
(* in lowest terms; floating-point rounding is not modelled.               *)
(***************************************************************************)
EXTENDS Integers, Sequences, FiniteSets, TLC

\* ------------------------------------------------------------------ bounds
\* Loader passes the orchestration loop runs, over all epochs.
MaxPasses == 2
\* Batches per loader pass.
MaxBatches == 2
\* Largest batch size (number of samples in a batch).
MaxBatchSize == 2
\* A batch is abstracted to a number from which the criterion's and the
\* metrics' outputs are derived.
BatchValues == {0, 1}
\* Logger sinks of a runner.
MaxLoggers == 2
\* Names in a list of hover fields.
MaxHead == 2
\* Series in a list of series to plot.
MaxSeries == 2
\* Reference codecs in an RD comparison.
MaxCodecs == 2

\* --------------------------------------------------------------- rationals
Abs(i) == IF i < 0 THEN -i ELSE i

RECURSIVE Gcd(_, _)
Gcd(a, b) == IF b = 0 THEN a ELSE Gcd(b, a % b)

\* <<n, d>> with d > 0 in lowest terms.
Rat(n, d) ==
    LET g == Gcd(Abs(n), d)
    IN  IF g = 0 THEN <<0, 1>> ELSE <<n \div g, d \div g>>

RatInt(i) == <<i, 1>>
RatAdd(p, q) == Rat(p[1] * q[2] + q[1] * p[2], p[2] * q[2])
RatSub(p, q) == Rat(p[1] * q[2] - q[1] * p[2], p[2] * q[2])
RatMul(p, q) == Rat(p[1] * q[1], p[2] * q[2])
\* p / i for an integer i > 0.
RatDivInt(p, i) == Rat(p[1], p[2] * i)

\* ------------------------------------------------------------ dictionaries
EmptyDict == [k \in {} |-> 0]

\* Python {**f, **g} and f.update(g): on a key collision g wins.
Merge(f, g) ==
    [k \in (DOMAIN f) \cup (DOMAIN g) |-> IF k \in DOMAIN g THEN g[k] ELSE f[k]]

\* The set of elements of a sequence.
Range(s) == {s[i] : i \in DOMAIN s}

\* ------------------------------------------------------------------ values
\* A metric value is either a 0-dim tensor (it has .item()) or a Python
\* float (it has not).
Tensor(r) == [kind |-> "tensor", item |-> r]
Float(r) == [kind |-> "float", val |-> r]

\* _coerce_item: x.item() if hasattr(x, "item") else x
_coerce_item(x) == IF x.kind = "tensor" THEN x.item ELSE x.val

\* ------------------------------------------------------------------ errors
NoError == [type |-> "none"]
KeyError(k) == [type |-> "KeyError", key |-> k]
AttributeError(a) == [type |-> "AttributeError", attr |-> a]

TypeError(what) == [type |-> "TypeError", what |-> what]

\* No helper has been called since the last hook.
NoCall == [fn |-> "none"]
NoResult == [error |-> NoError]

\* ------------------------------------------------------------------ meters
\* catalyst.metrics.AdditiveMetric(compute_on_call=False), as the runner uses
\* it: update(value, num_samples) keeps the running mean weighted by
\* num_samples, compute()[0] is the mean (0.0 before any update).  The
\* standard deviation (compute()[1]) is never read and is left out.
NewMeter(key) == [key |-> key, n |-> 0, num_samples |-> 0, mean |-> RatInt(0)]

\* Plausible bug: every batch counts once, whatever its size.
MeterUpdateUnweighted(m, value, num_samples) ==
    [m EXCEPT !.n = m.n + 1,
              !.num_samples = m.num_samples + num_samples,
              !.mean = IF m.n = 0 THEN value
                       ELSE RatAdd(m.mean,
                                   RatDivInt(RatSub(value, m.mean), m.n + 1))]

\* Plausible bug: every batch weighted as one sample.
MeterUpdateOneSample(m, value, num_samples) ==
    [m EXCEPT !.n = m.n + 1,
              !.num_samples = m.num_samples + 1,
              !.mean = IF m.n = 0 THEN value
                       ELSE RatAdd(m.mean,
                                   RatDivInt(RatSub(value, m.mean),
                                             m.num_samples + 1))]

\* self.meters[key].update(value, self.batch_size)
MeterUpdate(m, value, num_samples) ==
    [m EXCEPT !.n = m.n + 1,
              !.num_samples = m.num_samples + num_samples,
              !.mean = IF m.n = 0 THEN value
                       ELSE RatAdd(m.mean,
                                   RatDivInt(RatMul(RatSub(value, m.mean),
                                                    RatInt(num_samples)),
                                             m.num_samples + num_samples))]

\* self.meters[key].compute()[0]
MeterCompute(m) == m.mean

\* The keys of an ordered dict of meters (a sequence of meters, each with its key).
MeterKeys(ms) == {ms[i].key : i \in DOMAIN ms}

\* The meter of key k.
MeterOf(ms, k) == ms[CHOOSE i \in DOMAIN ms : ms[i].key = k]

\* ------------------------------------------------------------------- state
VARIABLES
    \* configuration, fixed at construction (train.py setup)
    model,            \* class of self.model: "CompressionModel", "DataParallel"
                      \* or "DistributedDataParallel"
    grad_clip,        \* hparams["optimizer"]: "absent" (no grad_clip entry),
                      \* "no_max_norm" (entry without max_norm), "max_norm"
    criterion_keys,   \* the keys of the mapping the criterion returns
    has_aux_loss,     \* whether the model has the auxiliary-loss capability
                      \* (entropy bottlenecks and an aux_loss method)
    \* position of the orchestration loop
    stage,            \* "idle", "experiment", "epoch", "loader", "done", "failed"
    hook,             \* the hook called last
    epoch_step,       \* self.epoch_step
    loader_step,      \* loader passes started in this epoch
    pass_step,        \* loader passes started in the run
    batch_step,       \* batches handled in this loader pass
    \* runner state
    loader_key,       \* "train", "valid", "infer" ("none" before any loader)
    meters,           \* self.meters: ordered dict key -> AdditiveMetric
    batch_meters,     \* self.batch_meters (BaseRunner)
    batch_metrics,    \* self.batch_metrics
    batch_size,       \* self.batch_size
    loader_metrics,   \* self.loader_metrics
    epoch_metrics,    \* self.epoch_metrics["_epoch_"]
    error,            \* the exception the last hook raised, or NoError
    \* history
    trace,            \* calls the last hook made on its collaborators, in order
    update_calls,     \* model update() calls since the last on_loader_start began
    pass_log,         \* batches folded into the meters in this loader pass:
                      \* a sequence of [d |-> batch metrics, n |-> batch size]
    grads,            \* [net, aux]: whether the parameters of that optimizer
                      \* hold accumulated gradients
    steps_ahead,      \* [net, aux]: the step() calls of that optimizer so far
                      \* minus the train batches completed so far
    \* logging and reporting
    loggers,          \* self.loggers: the logger sinks in order, each the set
                      \* of the logging methods it implements
    sink_calls,       \* calls the last hook or helper delivered to the sinks
    call,             \* the helper called since the last hook, with its arguments
    result            \* what that helper returned or raised

conf == <<model, grad_clip, criterion_keys, has_aux_loss>>
loop == <<stage, hook, epoch_step, loader_step, pass_step, batch_step>>
runner == <<loader_key, meters, batch_meters, batch_metrics, batch_size,
            loader_metrics, epoch_metrics, error>>
hist == <<trace, update_calls, pass_log>>
opt == <<grads, steps_ahead>>
report == <<loggers, sink_calls, call, result>>
vars == <<conf, loop, runner, hist, opt, report>>

ModelClasses == {"CompressionModel", "DataParallel", "DistributedDataParallel"}
GradClipConfs == {"absent", "no_max_norm", "max_norm"}
\* What a criterion may return: the rate-distortion criterion's three keys,
\* the same plus one more component, or a mapping with a key missing.
CriterionKeySets ==
    { {"loss", "bpp_loss", "mse_loss"},
      {"loss", "bpp_loss", "mse_loss", "ms_ssim_loss"},
      {"bpp_loss", "mse_loss"},
      {"loss", "mse_loss"} }
LoaderKeyNames == {"train", "valid", "infer"}

\* A call op made on the object obj.
Ev(op, obj) == [op |-> op, obj |-> obj]

\* Number of calls named op in a sequence of calls.
RECURSIVE Calls(_, _)
Calls(evs, op) ==
    IF evs = <<>> THEN 0
    ELSE (IF Head(evs).op = op THEN 1 ELSE 0) + Calls(Tail(evs), op)

\* Number of calls op on the object obj in a sequence of calls.
CallsOn(evs, op, obj) ==
    Cardinality({i \in DOMAIN evs : evs[i] = Ev(op, obj)})

\* Flags the framework sets from the loader's key at loader start.
is_train_loader == loader_key = "train"
is_valid_loader == loader_key = "valid"
is_infer_loader == loader_key = "infer"

\* ----------------------------------------------------------- collaborators
\* The object self.model: the wrapper when the model is wrapped.
Model == IF model = "CompressionModel" THEN "module" ELSE "wrapper"

\* BaseRunner.model_module: self.model.module for the two wrappers,
\* self.model otherwise.
model_module ==
    IF model \in {"DataParallel", "DistributedDataParallel"}
    THEN "module"
    ELSE Model

\* The criterion, the model's auxiliary loss and the quality metrics are
\* external; a batch is a number x and their outputs are fixed functions of
\* it, pairwise different so that no key can stand in for another.

\* self.criterion(out_net, x): a mapping of tensors.
Criterion(x) ==
    LET full == [loss         |-> Tensor(RatInt(x)),
                 bpp_loss     |-> Tensor(RatInt(x + 1)),
                 mse_loss     |-> Tensor(RatInt(2 * x + 2)),
                 ms_ssim_loss |-> Tensor(Rat(1, x + 2))]
    IN  [k \in criterion_keys |-> full[k]]

\* The model's auxiliary loss: a tensor, independent of the batch.  The
\* class-level call CompressionModel.aux_loss(self.model) sums the losses of
\* the model's entropy bottlenecks: the int 0 for a model that has none.
AuxLoss == IF has_aux_loss THEN Tensor(Rat(7, 2)) ELSE Float(RatInt(0))

\* self.criterion.lmbda (a Python float).
Lmbda == Float(Rat(1, 100))

\* compute_metrics(x, out_net["x_hat"], ["psnr", "ms-ssim"]): floats.
ComputeMetrics(x) ==
    ("psnr" :> Float(RatInt(30 + x))) @@ ("ms-ssim" :> Float(Rat(9, 10 + x)))

\* out_infer["bpp"] of inference(model_module, x, skip_decompress=True).
InferBpp(x) == Float(Rat(x + 1, 4))

\* ----------------------------------------------------------- loader start
\* BaseRunner.on_loader_start: the model calls it makes.
BaseOnLoaderStartCalls(is_infer) ==
    IF is_infer THEN <<Ev("update", model_module)>> ELSE <<>>

\* Plausible bug: the measured bitrate is not declared.
LoaderKeysNoBpp(is_infer) ==
    <<"loss", "aux_loss", "bpp_loss", "mse_loss", "lmbda">>
        \o (IF is_infer THEN <<"psnr", "ms-ssim">> ELSE <<>>)

\* ImageCompressionRunner.on_loader_start: the list `keys`.
LoaderKeys(is_infer) ==
    <<"loss", "aux_loss", "bpp_loss", "mse_loss", "lmbda">>
        \o (IF is_infer THEN <<"psnr", "ms-ssim">> \o <<"bpp">> ELSE <<>>)

\* Plausible bug: the entropy tables refreshed whatever the loader.
OnLoaderStartCallsAlways(is_infer) ==
    BaseOnLoaderStartCalls(is_infer) \o <<Ev("update", model_module)>>

\* ImageCompressionRunner.on_loader_start: the model calls it makes, those
\* of super().on_loader_start first.
OnLoaderStartCalls(is_infer) ==
    BaseOnLoaderStartCalls(is_infer)
        \o (IF is_infer THEN <<Ev("update", model_module)>> ELSE <<>>)

\* Plausible bug: a key that already has a meter keeps it from the pass before.
NewMetersKeepOld(keys) ==
    [i \in DOMAIN keys |->
        IF keys[i] \in MeterKeys(meters)
        THEN MeterOf(meters, keys[i])
        ELSE NewMeter(keys[i])]

\* {key: AdditiveMetric(compute_on_call=False) for key in keys}
NewMeters(keys) == [i \in DOMAIN keys |-> NewMeter(keys[i])]

\* The hook on_loader_start for a loader named key.  The framework's own
\* on_loader_start (reached through super()) sets the is_*_loader flags from
\* the loader's key and empties loader_metrics.
on_loader_start(key) ==
    /\ stage = "epoch"
    /\ pass_step < MaxPasses
    /\ stage' = "loader"
    /\ hook' = "on_loader_start"
    /\ loader_step' = loader_step + 1
    /\ pass_step' = pass_step + 1
    /\ batch_step' = 0
    /\ loader_key' = key
    /\ loader_metrics' = EmptyDict
    /\ batch_meters' = EmptyDict
    /\ meters' = NewMeters(LoaderKeys(is_infer_loader'))
    /\ trace' = OnLoaderStartCalls(is_infer_loader')
    /\ update_calls' = Calls(trace', "update")
    /\ pass_log' = <<>>
    /\ error' = NoError
    /\ sink_calls' = <<>>
    /\ call' = NoCall
    /\ result' = NoResult
    /\ UNCHANGED <<loggers, conf, epoch_step, batch_metrics, batch_size, epoch_metrics,
                   opt>>

\* ------------------------------------------------------------------ batch
\* Plausible bug: clipping whenever there is a grad_clip entry.
_grad_clip_any_entry ==
    IF grad_clip = "absent" THEN <<>>
    ELSE <<Ev("clip_grad_norm_", Model)>>

\* ImageCompressionRunner._grad_clip: the clipping it performs.
_grad_clip ==
    IF grad_clip = "absent" THEN <<>>
    ELSE IF grad_clip = "max_norm" THEN <<Ev("clip_grad_norm_", Model)>>
    ELSE <<>>

\* Plausible bug: the primary gradients not cleared.
AuxiliaryStepKeepsNetGrads(is_train) ==
    IF is_train
    THEN <<Ev("backward", "aux_loss"), Ev("step", "aux"),
           Ev("zero_grad", "aux")>>
    ELSE <<>>

\* Plausible bug: the gradients zeroed before the auxiliary step.
AuxiliaryStepZeroFirst(is_train) ==
    IF is_train
    THEN <<Ev("zero_grad", "net"), Ev("zero_grad", "aux"),
           Ev("backward", "aux_loss"), Ev("step", "aux")>>
    ELSE <<>>

\* handle_batch, lines 82-86: auxiliary backward and step, then zero_grad.
AuxiliaryStep(is_train) ==
    IF is_train
    THEN <<Ev("backward", "aux_loss"), Ev("step", "aux"),
           Ev("zero_grad", "net"), Ev("zero_grad", "aux")>>
    ELSE <<>>

\* Plausible bug: the primary step taken whatever the loader.
PrimaryStepAlways(is_train) ==
    <<Ev("backward", "loss"), Ev("_grad_clip", "runner")>>
        \o _grad_clip \o <<Ev("step", "net")>>

\* handle_batch, lines 75-78: primary backward, clipping, primary step.
PrimaryStep(is_train) ==
    IF is_train
    THEN <<Ev("backward", "loss"), Ev("_grad_clip", "runner")>>
             \o _grad_clip \o <<Ev("step", "net")>>
    ELSE <<>>

\* The outcome of a batch handler before the meters are updated: the calls
\* made, the exception raised (or NoError) and the mapping d.
Outcome(calls, err, d) == [calls |-> calls, error |-> err, d |-> d]

\* Plausible bug: a missing loss read as a default instead of raising.
forward_batch_default_loss(x) ==
    LET out_criterion == Criterion(x)
        loss == IF "loss" \in DOMAIN out_criterion
                THEN out_criterion["loss"] ELSE Tensor(RatInt(0))
    IN  Outcome(<<Ev("forward", Model), Ev("criterion", "criterion")>>
                    \o PrimaryStep(is_train_loader)
                    \o <<Ev("aux_loss", Model)>>
                    \o AuxiliaryStep(is_train_loader),
                NoError,
                Merge(Merge(("loss" :> loss) @@ ("aux_loss" :> AuxLoss),
                            out_criterion),
                      "lmbda" :> Lmbda))

\* handle_batch, lines 70-93 (train and valid loaders): forward pass,
\* criterion, the two optimisation steps when training, and the mapping d.
forward_batch(x) ==
    LET out_criterion == Criterion(x)
        head == <<Ev("forward", Model), Ev("criterion", "criterion")>>
    IN  IF "loss" \notin DOMAIN out_criterion
        THEN Outcome(head, KeyError("loss"), EmptyDict)
        ELSE IF is_train_loader /\ ~has_aux_loss
        THEN \* aux_loss.backward() on the int 0
             Outcome(head
                         \o PrimaryStep(is_train_loader)
                         \o <<Ev("aux_loss", Model)>>,
                     AttributeError("backward"), EmptyDict)
        ELSE Outcome(head
                         \o PrimaryStep(is_train_loader)
                         \o <<Ev("aux_loss", Model)>>
                         \o AuxiliaryStep(is_train_loader),
                     NoError,
                     Merge(Merge(("loss" :> out_criterion["loss"])
                                     @@ ("aux_loss" :> AuxLoss),
                                 out_criterion),
                           "lmbda" :> Lmbda))

\* predict_batch, lines 104-121: inference on the unwrapped model, criterion,
\* quality metrics, and the mapping d.
predict_batch(x) ==
    LET out_criterion == Criterion(x)
        head == <<Ev("to", "batch"), Ev("inference", model_module),
                  Ev("criterion", "criterion"),
                  Ev("compute_metrics", "metrics")>>
    IN  IF "loss" \notin DOMAIN out_criterion
        THEN Outcome(head, KeyError("loss"), EmptyDict)
        ELSE IF ~has_aux_loss
        THEN \* self.model_module.aux_loss: no such attribute
             Outcome(head, AttributeError("aux_loss"), EmptyDict)
        ELSE Outcome(head \o <<Ev("aux_loss", model_module)>>,
                     NoError,
                     Merge(Merge(Merge(Merge(("loss" :> out_criterion["loss"])
                                                 @@ ("aux_loss" :> AuxLoss),
                                             out_criterion),
                                       "lmbda" :> Lmbda),
                                 ComputeMetrics(x)),
                           "bpp" :> InferBpp(x)))

\* Plausible bug: validation batches sent through predict_batch too.
batch_outcome_predict_valid(x) ==
    IF is_infer_loader \/ is_valid_loader
    THEN predict_batch(x)
    ELSE forward_batch(x)

\* handle_batch, lines 67-68: inference loaders go through predict_batch.
batch_outcome(x) ==
    IF is_infer_loader THEN predict_batch(x) ELSE forward_batch(x)

\* The gradients after a sequence of calls: loss.backward() leaves gradients
\* on the parameters of optimizer["net"], aux_loss.backward() on those of
\* optimizer["aux"], and zero_grad() clears those of its optimizer.
RECURSIVE GradsAfter(_, _)
GradsAfter(g, evs) ==
    IF evs = <<>> THEN g
    ELSE LET e == Head(evs)
             g1 == IF e = Ev("backward", "loss") THEN [g EXCEPT !.net = TRUE]
                   ELSE IF e = Ev("backward", "aux_loss")
                   THEN [g EXCEPT !.aux = TRUE]
                   ELSE IF e.op = "zero_grad" THEN [g EXCEPT ![e.obj] = FALSE]
                   ELSE g
         IN  GradsAfter(g1, Tail(evs))

\* The outcome of updating the meters: the meters and the exception raised.
Folded(ms, err) == [meters |-> ms, error |-> err]

\* Plausible bug: the loop runs over the batch's keys and makes a meter for
\* each key that has none.
RECURSIVE UpdateFromBatchKeys(_, _, _, _)
UpdateFromBatchKeys(ms, todo, bm, bs) ==
    IF todo = {} THEN Folded(ms, NoError)
    ELSE LET k == CHOOSE c \in todo : TRUE
             have == IF k \in MeterKeys(ms) THEN ms ELSE Append(ms, NewMeter(k))
             i == CHOOSE j \in DOMAIN have : have[j].key = k
         IN  UpdateFromBatchKeys(
                 [have EXCEPT ![i] = MeterUpdate(@, _coerce_item(bm[k]), bs)],
                 todo \ {k}, bm, bs)

UpdateMetersAllKeys(ms, bm, bs) == UpdateFromBatchKeys(ms, DOMAIN bm, bm, bs)

\* Plausible bug: a declared key the batch has not is passed over.
RECURSIVE UpdateMetersFromSkipAbsent(_, _, _, _)
UpdateMetersFromSkipAbsent(ms, i, bm, bs) ==
    IF i > Len(ms) THEN Folded(ms, NoError)
    ELSE IF ms[i].key \notin DOMAIN bm
    THEN UpdateMetersFromSkipAbsent(ms, i + 1, bm, bs)
    ELSE UpdateMetersFromSkipAbsent(
             [ms EXCEPT ![i] = MeterUpdate(@, _coerce_item(bm[ms[i].key]), bs)],
             i + 1, bm, bs)

\* for key in self.meters.keys(): self.meters[key].update(
\*     _coerce_item(self.batch_metrics[key]), self.batch_size)
\* from the i-th meter on, in the dict's order.  batch_metrics is a
\* defaultdict(None): reading a key it has not raises KeyError.
RECURSIVE UpdateMetersFrom(_, _, _, _)
UpdateMetersFrom(ms, i, bm, bs) ==
    IF i > Len(ms) THEN Folded(ms, NoError)
    ELSE IF ms[i].key \notin DOMAIN bm THEN Folded(ms, KeyError(ms[i].key))
    ELSE UpdateMetersFrom(
             [ms EXCEPT ![i] = MeterUpdate(@, _coerce_item(bm[ms[i].key]), bs)],
             i + 1, bm, bs)

\* handle_batch, lines 97-101, and predict_batch, lines 125-129.
UpdateMeters(ms, bm, bs) == UpdateMetersFrom(ms, 1, bm, bs)

\* One batch of the loop: the framework's on_batch_start sets batch_size to
\* the batch's length and empties batch_metrics, then handle_batch runs.  An
\* exception ends the run.
handle_batch(x, n) ==
    /\ stage = "loader"
    /\ batch_step < MaxBatches
    /\ hook' = "handle_batch"
    /\ batch_step' = batch_step + 1
    /\ batch_size' = n
    /\ LET out == batch_outcome(x)
       IN  /\ trace' = out.calls
           /\ batch_metrics' = Merge(EmptyDict, out.d)
           /\ IF out.error # NoError
              THEN /\ error' = out.error
                   /\ meters' = meters
              ELSE LET f == UpdateMeters(meters, batch_metrics', batch_size')
                   IN  /\ error' = f.error
                       /\ meters' = f.meters
    /\ stage' = IF error' = NoError THEN "loader" ELSE "failed"
    /\ pass_log' = IF error' = NoError
                   THEN Append(pass_log, [d |-> batch_metrics', n |-> n])
                   ELSE pass_log
    /\ update_calls' = update_calls + Calls(trace', "update")
    /\ grads' = GradsAfter(grads, trace')
    /\ LET completed == IF is_train_loader /\ error' = NoError THEN 1 ELSE 0
       IN  steps_ahead' =
               [net |-> steps_ahead.net + CallsOn(trace', "step", "net")
                            - completed,
                aux |-> steps_ahead.aux + CallsOn(trace', "step", "aux")
                            - completed]
    /\ sink_calls' = <<>>
    /\ call' = NoCall
    /\ result' = NoResult
    /\ UNCHANGED <<loggers, conf, epoch_step, loader_step, pass_step, loader_key, batch_meters,
                   loader_metrics, epoch_metrics>>

\* ------------------------------------------------------------- loader end
\* for key in ms.keys(): self.loader_metrics[key] = ms[key].compute()[0]
WriteLoaderMetrics(lm, ms) ==
    Merge(lm, [k \in MeterKeys(ms) |-> MeterCompute(MeterOf(ms, k))])

\* ImageCompressionRunner.on_loader_end, then BaseRunner.on_loader_end
\* (batch_meters is empty all along: nothing fills it).
on_loader_end ==
    /\ stage = "loader"
    /\ stage' = "epoch"
    /\ hook' = "on_loader_end"
    /\ loader_metrics' = WriteLoaderMetrics(loader_metrics, meters)
    /\ trace' = <<>>
    /\ error' = NoError
    /\ sink_calls' = <<>>
    /\ call' = NoCall
    /\ result' = NoResult
    /\ UNCHANGED <<loggers, conf, epoch_step, loader_step, pass_step, batch_step, loader_key,
                   meters, batch_meters, batch_metrics, batch_size,
                   epoch_metrics, update_calls, pass_log, opt>>

\* ------------------------------------------------------- experiment, epoch
\* Plausible bug: the dependency lists recorded before the git diffs.
OnExperimentStartCallsPipFirst ==
    <<Ev("log_artifact", "pip_list.txt"),
      Ev("log_artifact", "requirements.txt"),
      Ev("log_artifact", "compressai_git_diff"),
      Ev("log_artifact", "compressai_train_git_diff"),
      Ev("log_hparams", "stats")>>

\* BaseRunner.on_experiment_start: _log_git_diff(compressai),
\* _log_git_diff(compressai_train), _log_pip(), _log_stats().
OnExperimentStartCalls ==
    <<Ev("log_artifact", "compressai_git_diff"),
      Ev("log_artifact", "compressai_train_git_diff"),
      Ev("log_artifact", "pip_list.txt"),
      Ev("log_artifact", "requirements.txt"),
      Ev("log_hparams", "stats")>>

\* ---------------------------------------------------------------- logging
\* The logging methods a sink may implement.
LoggerMethods == {"log_artifact", "log_figure", "log_distribution"}

\* self.loggers: up to MaxLoggers sinks.
LoggerConfs == UNION {[1..n -> SUBSET LoggerMethods] : n \in 0..MaxLoggers}

\* The sinks of the engine the training script configures: one that
\* implements every logging method and one that implements none.
EngineLoggers == <<LoggerMethods, {}>>

\* A call that reached the implementation of a method in the i-th sink.
SinkCall(i, method, tag) == [sink |-> i, op |-> method, tag |-> tag]

\* self.log_artifact(tag, ...) and self.log_hparams(...): the framework's
\* runner calls the method on every sink, from the i-th on; a sink that
\* does not implement it inherits the logger base class's, which does
\* nothing.
RECURSIVE ToEverySink(_, _, _)
ToEverySink(i, method, tag) ==
    IF i > Len(loggers) THEN <<>>
    ELSE (IF method \in loggers[i] THEN <<SinkCall(i, method, tag)>> ELSE <<>>)
             \o ToEverySink(i + 1, method, tag)

\* The sink calls of a sequence of logging calls of the runner.
RECURSIVE Delivered(_)
Delivered(evs) ==
    IF evs = <<>> THEN <<>>
    ELSE ToEverySink(1, Head(evs).op, Head(evs).obj) \o Delivered(Tail(evs))

\* The outcome of a loop over the sinks: the calls delivered and the
\* exception raised (or NoError).
Dispatched(calls, err) == [calls |-> calls, error |-> err]

\* Plausible bug: the method called on every sink, implemented or not.
RECURSIVE LogToSinksUnchecked(_, _, _, _)
LogToSinksUnchecked(i, method, tag, done) ==
    IF i > Len(loggers) THEN Dispatched(done, NoError)
    ELSE IF method \notin loggers[i]
    THEN Dispatched(done, AttributeError(method))
    ELSE LogToSinksUnchecked(i + 1, method, tag,
                             Append(done, SinkCall(i, method, tag)))

\* BaseRunner.log_distribution and log_figure, lines 87-90 and 94-97:
\*   for logger in self.loggers.values():
\*       if not hasattr(logger, method): continue
\*       logger.method(*args, **kwargs, runner=self)
\* from the i-th sink on, after the calls `done`.
RECURSIVE LogToSinks(_, _, _, _)
LogToSinks(i, method, tag, done) ==
    IF i > Len(loggers) THEN Dispatched(done, NoError)
    ELSE IF method \notin loggers[i]
    THEN LogToSinks(i + 1, method, tag, done)
    ELSE LogToSinks(i + 1, method, tag,
                    Append(done, SinkCall(i, method, tag)))

\* What is logged: figures and distributions are abstracted to their tags.
LogTags == {"rd-curves-kodak-psnr", "y"}

\* A helper may be called between two hooks.  What a helper does is
\* independent of the helper called before it, so one call is followed
\* after each hook.
HelperCallable == stage \notin {"failed", "done"} /\ call = NoCall

\* BaseRunner.log_distribution(tag, ...), called between two hooks.
log_distribution(tag) ==
    /\ HelperCallable
    /\ call' = [fn |-> "log_distribution", tag |-> tag]
    /\ LET out == LogToSinks(1, "log_distribution", tag, <<>>)
       IN  /\ sink_calls' = out.calls
           /\ result' = [error |-> out.error]
    /\ UNCHANGED <<conf, loop, runner, hist, opt, loggers>>

\* BaseRunner.log_figure(tag, fig), called between two hooks.
log_figure(tag) ==
    /\ HelperCallable
    /\ call' = [fn |-> "log_figure", tag |-> tag]
    /\ LET out == LogToSinks(1, "log_figure", tag, <<>>)
       IN  /\ sink_calls' = out.calls
           /\ result' = [error |-> out.error]
    /\ UNCHANGED <<conf, loop, runner, hist, opt, loggers>>

on_experiment_start ==
    /\ stage = "idle"
    /\ stage' = "experiment"
    /\ hook' = "on_experiment_start"
    /\ trace' = OnExperimentStartCalls
    /\ sink_calls' = Delivered(trace')
    /\ call' = NoCall
    /\ result' = NoResult
    /\ UNCHANGED <<conf, epoch_step, loader_step, pass_step, batch_step, runner,
                   update_calls, pass_log, opt, loggers>>

\* The framework counts the epoch at its start.  An epoch runs at least one
\* loader pass, so no epoch starts when no pass is left.
on_epoch_start ==
    /\ stage = "experiment"
    /\ pass_step < MaxPasses
    /\ stage' = "epoch"
    /\ hook' = "on_epoch_start"
    /\ epoch_step' = epoch_step + 1
    /\ loader_step' = 0
    /\ trace' = <<>>
    /\ sink_calls' = <<>>
    /\ call' = NoCall
    /\ result' = NoResult
    /\ UNCHANGED <<loggers, conf, pass_step, batch_step, runner, update_calls,
                   pass_log, opt>>

\* self.epoch_metrics["_epoch_"]["epoch"] = self.epoch_step
on_epoch_end ==
    /\ stage = "epoch"
    /\ loader_step > 0
    /\ stage' = "experiment"
    /\ hook' = "on_epoch_end"
    /\ epoch_metrics' = [epoch |-> epoch_step]
    /\ trace' = <<>>
    /\ sink_calls' = <<>>
    /\ call' = NoCall
    /\ result' = NoResult
    /\ UNCHANGED <<loggers, conf, epoch_step, loader_step, pass_step, batch_step, loader_key,
                   meters, batch_meters, batch_metrics, batch_size,
                   loader_metrics, error, update_calls, pass_log, opt>>

on_experiment_end ==
    /\ stage = "experiment"
    /\ epoch_step > 0
    /\ stage' = "done"
    /\ hook' = "on_experiment_end"
    /\ trace' = <<>>
    /\ sink_calls' = <<>>
    /\ call' = NoCall
    /\ result' = NoResult
    /\ UNCHANGED <<loggers, conf, epoch_step, loader_step, pass_step, batch_step, runner,
                   update_calls, pass_log, opt>>

\* -------------------------------------------------------------- reporting
\* A pandas DataFrame: its column labels in order and its rows, a row being
\* a mapping from column labels to values (a label the row has no value for
\* is NaN).
DataFrame(columns, rows) == [columns |-> columns, rows |-> rows]

\* The outcome of a helper: what it returned, or the exception it raised.
Returned(value) == [error |-> NoError, value |-> value]
Raised(err) == [error |-> err]

\* _reorder_dataframe_columns(df, head):
\*   head_set = set(head)
\*   columns = head + [x for x in df.columns if x not in head_set]
\*   return df[columns]
\* df[columns] raises KeyError for a label the frame has not, and repeats a
\* column whose label is repeated.
_reorder_dataframe_columns(df, head) ==
    LET head_set == Range(head)
        columns == head \o SelectSeq(df.columns, LAMBDA x : x \notin head_set)
        missing == {i \in DOMAIN columns : columns[i] \notin Range(df.columns)}
    IN  IF missing # {}
        THEN Raised(KeyError(columns[CHOOSE i \in missing :
                                        \A j \in missing : i <= j]))
        ELSE Returned(DataFrame(columns, df.rows))

\* Plausible bug: the defaults win over the caller's layout options.
LayoutDefaultsWin(default_kwargs, layout_kwargs) ==
    Merge(layout_kwargs, default_kwargs)

\* layout_kwargs = {**default_kwargs, **layout_kwargs}
Layout(default_kwargs, layout_kwargs) == Merge(default_kwargs, layout_kwargs)

\* plot_rd(series_list, **layout_kwargs): the figure's traces (one
\* add_scatter per series) and the layout it is given.
plot_rd(series_list, layout_kwargs) ==
    LET data == [i \in DOMAIN series_list |->
                    [name |-> series_list[i]["name"],
                     x |-> series_list[i]["x"],
                     y |-> series_list[i]["y"]]]
        default_kwargs ==
            [xaxis_title |-> "Bit-rate [bpp]",
             yaxis_title |-> "PSNR [dB]",
             xaxis |-> [range |-> <<RatInt(0), Rat(9, 4)>>,
                        tick0 |-> RatInt(0), dtick |-> Rat(1, 4)],
             yaxis |-> [range |-> <<RatInt(26), RatInt(41)>>,
                        tick0 |-> RatInt(26), dtick |-> RatInt(1)]]
    IN  Returned([data |-> data,
                  layout |-> Layout(default_kwargs, layout_kwargs)])

\* Inputs of the helpers.
\* Frames to reorder: a reference frame and a comparison frame, no rows.
ExampleFrames ==
    {DataFrame(<<"name", "bpp", "psnr">>, <<>>),
     DataFrame(<<"name", "bpp", "psnr", "epoch", "loss">>, <<>>)}

\* Hover fields: labels of the frames, and one that no frame has.
HoverFields == {"name", "psnr", "epoch", "seed"}

HoverLists == UNION {[1..n -> HoverFields] : n \in 0..MaxHead}

\* Series to plot.
ExampleSeries ==
    {[name |-> "bmshj2018-factorized",
      x |-> <<Rat(1, 4), Rat(1, 2)>>, y |-> <<RatInt(30), RatInt(32)>>],
     [name |-> "vtm", x |-> <<Rat(1, 5)>>, y |-> <<RatInt(31)>>],
     [name |-> "empty", x |-> <<>>, y |-> <<>>]}

SeriesLists == UNION {[1..n -> ExampleSeries] : n \in 0..MaxSeries}

\* Layout options of a caller: none, a key the defaults have not, a
\* default key, an axis given without its ticks, and two keys at once.
LayoutOptions ==
    {EmptyDict,
     [title |-> "RD curves"],
     [xaxis_title |-> "Rate"],
     [xaxis |-> [range |-> <<RatInt(0), RatInt(1)>>]],
     [yaxis_title |-> "MS-SSIM", yaxis |-> [range |-> <<RatInt(0), RatInt(1)>>,
                                            tick0 |-> RatInt(0), dtick |-> Rat(1, 10)]]}

\* A call of _reorder_dataframe_columns between two hooks.
Apply_reorder_dataframe_columns(df, head) ==
    /\ HelperCallable
    /\ call' = [fn |-> "_reorder_dataframe_columns", df |-> df, head |-> head]
    /\ result' = _reorder_dataframe_columns(df, head)
    /\ sink_calls' = <<>>
    /\ UNCHANGED <<conf, loop, runner, hist, opt, loggers>>

\* A call of plot_rd between two hooks.
Apply_plot_rd(series_list, layout_kwargs) ==
    /\ HelperCallable
    /\ call' = [fn |-> "plot_rd", series_list |-> series_list,
                layout_kwargs |-> layout_kwargs]
    /\ result' = plot_rd(series_list, layout_kwargs)
    /\ sink_calls' = <<>>
    /\ UNCHANGED <<conf, loop, runner, hist, opt, loggers>>

\* 10^k for k >= 0.
RECURSIVE Pow10(_)
Pow10(k) == IF k = 0 THEN 1 ELSE 10 * Pow10(k - 1)

\* n / d rounded to the nearest integer, halves to even (n >= 0, d > 0).
RoundHalfEven(n, d) ==
    LET q == n \div d
        twice == 2 * (n % d)
    IN  IF twice > d THEN q + 1
        ELSE IF twice < d THEN q
        ELSE IF q % 2 = 0 THEN q ELSE q + 1

\* The decimal exponent of a / d: the e with 10^e <= a / d < 10^(e + 1)
\* (a > 0, d > 0).
RECURSIVE Exponent(_, _)
Exponent(a, d) ==
    IF a >= 10 * d THEN Exponent(a, 10 * d) + 1
    ELSE IF a < d THEN Exponent(10 * a, d) - 1
    ELSE 0

\* r = lambda x: float(f"{x:.4g}"): x rounded to four significant digits.
Round4g(x) ==
    IF x[1] = 0 THEN RatInt(0)
    ELSE LET a == Abs(x[1])
             d == x[2]
             e == Exponent(a, d)
             m == IF e <= 3 THEN RoundHalfEven(a * Pow10(3 - e), d)
                  ELSE RoundHalfEven(a, d * Pow10(e - 3))
             sign == IF x[1] < 0 THEN -1 ELSE 1
         IN  IF e <= 3 THEN Rat(sign * m, Pow10(3 - e))
             ELSE Rat(sign * m * Pow10(e - 3), 1)

\* self.hparams["model"]["name"]
ModelName == "bmshj2018-factorized"

\* BaseRunner._current_dataframe: a frame of one row, or the KeyError of the
\* first of loss, bpp and psnr that self.loader_metrics has not.
_current_dataframe ==
    LET needed == <<"loss", "bpp", "psnr">>
        missing == {i \in DOMAIN needed : needed[i] \notin DOMAIN loader_metrics}
    IN  IF missing # {}
        THEN Raised(KeyError(needed[CHOOSE i \in missing :
                                       \A j \in missing : i <= j]))
        ELSE Returned(DataFrame(
                 <<"name", "epoch", "loss", "bpp", "psnr">>,
                 <<[name  |-> ModelName \o "*",
                    epoch |-> epoch_step,
                    loss  |-> Round4g(loader_metrics["loss"]),
                    bpp   |-> Round4g(loader_metrics["bpp"]),
                    psnr  |-> Round4g(loader_metrics["psnr"])]>>))

\* The reference codecs of the benchmark store and the number of points of
\* the RD series of each.
ReferencePoints == ("bmshj2018-factorized" :> 2) @@ ("vtm" :> 3)

CodecLists == UNION {[1..n -> DOMAIN ReferencePoints] : n \in 0..MaxCodecs}

\* compressai_dataframe(name, dataset): the RD series of a reference codec
\* as a frame, one row per point, each row under the codec's name.
compressai_dataframe(name) ==
    DataFrame(<<"name", "bpp", "psnr">>,
              [i \in 1..ReferencePoints[name] |->
                  [name |-> name, bpp |-> Rat(i, 4), psnr |-> RatInt(28 + i)]])

\* Plausible bug: the current model's frame put first.
RECURSIVE concat_last_first(_)
concat_last_first(dfs) ==
    IF Len(dfs) <= 1 THEN dfs[1]
    ELSE LET last == dfs[Len(dfs)]
             rest == concat_last_first(SubSeq(dfs, 1, Len(dfs) - 1))
         IN  DataFrame(
                 last.columns
                     \o SelectSeq(rest.columns,
                                  LAMBDA x : x \notin Range(last.columns)),
                 last.rows \o rest.rows)

\* pd.concat(dfs) of a non-empty list of frames: the rows of the frames in
\* the list's order, under the union of their columns in order of first
\* appearance.
RECURSIVE concat(_)
concat(dfs) ==
    IF Len(dfs) = 1 THEN dfs[1]
    ELSE LET init == concat(SubSeq(dfs, 1, Len(dfs) - 1))
             last == dfs[Len(dfs)]
         IN  DataFrame(
                 init.columns
                     \o SelectSeq(last.columns,
                                  LAMBDA x : x \notin Range(init.columns)),
                 init.rows \o last.rows)

\* Hover fields of an RD figure.
RdHoverLists == {<<>>, <<"name", "epoch">>}

\* BaseRunner._log_rd_figure(codecs, dataset, scatter_kwargs=dict(
\* hover_data=hover_data)), called between two hooks.  The table df is
\* built (lines 146-150) unless the loader metrics lack a key or the hover
\* fields name a column the table has not.  plot_rd(df, ...) then iterates
\* df, which yields its column labels, and subscripts the first label with
\* "name" (plot.py line 42): a TypeError, so log_figure is not reached.
_log_rd_figure(codecs, hover_data) ==
    /\ HelperCallable
    /\ call' = [fn |-> "_log_rd_figure", codecs |-> codecs,
                hover_data |-> hover_data]
    /\ LET dfs == [i \in DOMAIN codecs |-> compressai_dataframe(codecs[i])]
           current == _current_dataframe
       IN  IF current.error # NoError
           THEN result' = Raised(current.error)
           ELSE LET df == concat(Append(dfs, current.value))
                    reordered == _reorder_dataframe_columns(df, hover_data)
                IN  IF reordered.error # NoError
                    THEN result' = Raised(reordered.error)
                    ELSE result' = [error |-> TypeError("str"),
                                    df |-> reordered.value]
    /\ sink_calls' = <<>>
    /\ UNCHANGED <<conf, loop, runner, hist, opt, loggers>>

\* ----------------------------------------------------------- specification
\* The runner after construction, before any hook.
Constructed ==
    /\ stage = "idle"
    /\ hook = "none"
    /\ epoch_step = 0
    /\ loader_step = 0
    /\ pass_step = 0
    /\ batch_step = 0
    /\ loader_key = "none"
    /\ meters = <<>>
    /\ batch_meters = EmptyDict
    /\ batch_metrics = EmptyDict
    /\ batch_size = 0
    /\ loader_metrics = EmptyDict
    /\ epoch_metrics = [epoch |-> 0]
    /\ error = NoError
    /\ trace = <<>>
    /\ update_calls = 0
    /\ pass_log = <<>>
    /\ grads = [net |-> FALSE, aux |-> FALSE]
    /\ steps_ahead = [net |-> 0, aux |-> 0]
    /\ sink_calls = <<>>
    /\ call = NoCall
    /\ result = NoResult

\* After construction: train.py builds model, criterion and optimizers from
\* the configuration and makes an ImageCompressionRunner.
Init ==
    /\ model \in ModelClasses
    /\ grad_clip \in GradClipConfs
    /\ criterion_keys \in CriterionKeySets
    /\ has_aux_loss \in BOOLEAN
    /\ loggers = EngineLoggers
    /\ Constructed

\* runner.train(...): the orchestration loop calls one hook at a time.
Next ==
    \/ on_experiment_start
    \/ on_epoch_start
    \/ \E key \in LoaderKeyNames : on_loader_start(key)
    \/ \E x \in BatchValues, n \in 1..MaxBatchSize : handle_batch(x, n)
    \/ on_loader_end
    \/ on_epoch_end
    \/ on_experiment_end

Spec == Init /\ [][Next]_vars

\* The logging and plotting helpers, on a runner with any sinks: nothing in
\* the runners calls log_figure, log_distribution, plot_rd or
\* _reorder_dataframe_columns from a hook, so they are called here on their
\* own, before or after on_experiment_start.
InitHelpers ==
    /\ model = "CompressionModel"
    /\ grad_clip = "absent"
    /\ criterion_keys = {"loss", "bpp_loss", "mse_loss"}
    /\ has_aux_loss = TRUE
    /\ loggers \in LoggerConfs
    /\ Constructed

NextHelpers ==
    \/ on_experiment_start
    \/ \E tag \in LogTags : log_figure(tag)
    \/ \E tag \in LogTags : log_distribution(tag)
    \/ \E df \in ExampleFrames, head \in HoverLists :
           Apply_reorder_dataframe_columns(df, head)
    \/ \E series_list \in SeriesLists, layout_kwargs \in LayoutOptions :
           Apply_plot_rd(series_list, layout_kwargs)

SpecHelpers == InitHelpers /\ [][NextHelpers]_vars

\* The RD report of a training run: the orchestration loop of a runner with
\* the rate-distortion criterion and a plain model, and _log_rd_figure
\* called between its hooks.
InitReport ==
    /\ model = "CompressionModel"
    /\ grad_clip = "absent"
    /\ criterion_keys = {"loss", "bpp_loss", "mse_loss"}
    /\ has_aux_loss = TRUE
    /\ loggers = EngineLoggers
    /\ Constructed

NextReport ==
    \/ Next
    \/ \E codecs \in CodecLists, hover_data \in RdHoverLists :
           _log_rd_figure(codecs, hover_data)

SpecReport == InitReport /\ [][NextReport]_vars

\* ================================================================== claims
\* The key sets the specification names.
TrainKeySet == {"loss", "aux_loss", "bpp_loss", "mse_loss", "lmbda"}
EvalKeySet == TrainKeySet \cup {"psnr", "ms-ssim", "bpp"}

\* A loader pass is open: on_loader_start has run and on_loader_end has not.
InPass == stage \in {"loader", "failed"}

C2_UpdateOncePerInferPass ==
    (InPass /\ is_infer_loader) =>
        /\ update_calls = 1
        /\ hook = "handle_batch" => Calls(trace, "update") = 0

\* C3: update() is called only by on_loader_start of an infer loader, so it
\* has been called before the first batch of an infer pass is handled, and
\* it is never called in a train or a valid pass.
C3_UpdateOnlyForInfer ==
    /\ Calls(trace, "update") > 0 =>
           (hook = "on_loader_start" /\ is_infer_loader)
    /\ (is_infer_loader /\ hook = "handle_batch") =>
           update_calls - Calls(trace, "update") > 0
    /\ (is_train_loader \/ is_valid_loader) => update_calls = 0

\* C3 witness: the first batch of an infer pass has been handled, after the
\* update of on_loader_start.
C3_Witness ==
    /\ is_infer_loader
    /\ hook = "handle_batch"
    /\ batch_step = 1
    /\ error = NoError
    /\ update_calls > 0

\* The batch-size-weighted mean of key k over a log of batches, from its
\* definition: sum(v_i * n_i) / sum(n_i).
RECURSIVE SumVN(_, _)
SumVN(log, k) ==
    IF log = <<>> THEN RatInt(0)
    ELSE RatAdd(RatMul(_coerce_item(Head(log).d[k]), RatInt(Head(log).n)),
                SumVN(Tail(log), k))

RECURSIVE SumN(_)
SumN(log) == IF log = <<>> THEN 0 ELSE Head(log).n + SumN(Tail(log))

WeightedMean(log, k) == RatDivInt(SumVN(log, k), SumN(log))

\* The mean over batches, each batch counting once.
RECURSIVE SumV(_, _)
SumV(log, k) ==
    IF log = <<>> THEN RatInt(0)
    ELSE RatAdd(_coerce_item(Head(log).d[k]), SumV(Tail(log), k))

UnweightedMean(log, k) == RatDivInt(SumV(log, k), Len(log))

\* C4: at on_loader_end, after at least one batch, loader_metrics[key] is
\* the batch-size-weighted mean sum(v_i * n_i) / sum(n_i) of the pass's
\* batches, for every declared key; updates (1.0, 4), (3.0, 2) give 10/6.
C4_WeightedMean ==
    /\ (hook = "on_loader_end" /\ pass_log # <<>>) =>
           /\ DOMAIN loader_metrics = MeterKeys(meters)
           /\ \A k \in MeterKeys(meters) :
                  loader_metrics[k] = WeightedMean(pass_log, k)
    /\ MeterCompute(MeterUpdate(MeterUpdate(NewMeter("loss"), RatInt(1), 4),
                                RatInt(3), 2)) = Rat(10, 6)

\* C4 witness: a pass of two batches of different sizes has ended, and the
\* loss written differs from the unweighted mean over the two batches.
C4_Witness ==
    /\ hook = "on_loader_end"
    /\ Len(pass_log) = 2
    /\ pass_log[1].n # pass_log[2].n
    /\ loader_metrics["loss"] = WeightedMean(pass_log, "loss")
    /\ loader_metrics["loss"] # UnweightedMean(pass_log, "loss")

\* The keys the runner declares for the loader of the open pass.
DeclaredKeySet == IF is_infer_loader THEN EvalKeySet ELSE TrainKeySet

\* C5: a batch whose metric mapping holds a key that is not declared for
\* the loader raises nothing on that account, gets no meter for that key,
\* and leaves every declared meter with one update per batch of the pass,
\* the pass's sample count as weight, and the weighted mean of its own key.
C5_UndeclaredKeySkipped ==
    (hook = "handle_batch" /\ (DOMAIN batch_metrics) \ DeclaredKeySet # {}
        /\ DeclaredKeySet \subseteq DOMAIN batch_metrics) =>
        /\ error = NoError
        /\ MeterKeys(meters) = DeclaredKeySet
        /\ Len(meters) = Cardinality(DeclaredKeySet)
        /\ \A i \in DOMAIN meters :
               /\ meters[i].n = Len(pass_log)
               /\ meters[i].num_samples = SumN(pass_log)
               /\ MeterCompute(meters[i]) = WeightedMean(pass_log, meters[i].key)

\* C5 witness: a batch with the undeclared component ms_ssim_loss has been
\* handled, the second of its pass.
C5_Witness ==
    /\ hook = "handle_batch"
    /\ "ms_ssim_loss" \in DOMAIN batch_metrics
    /\ "ms_ssim_loss" \notin MeterKeys(meters)
    /\ Len(pass_log) = 2
    /\ error = NoError

\* C6 (as stated): on_loader_end right after on_loader_start, with no batch
\* handled, reports "no data" and writes no value to loader_metrics for any
\* declared key.
C6_NoDataReported ==
    (hook = "on_loader_end" /\ batch_step = 0) =>
        /\ error # NoError
        /\ \A k \in MeterKeys(meters) : k \notin DOMAIN loader_metrics

\* The calls of a batch that touch gradients or parameters.
GradientOps == {"backward", "clip_grad_norm_", "step", "zero_grad"}

GradientCalls(evs) == SelectSeq(evs, LAMBDA e : e.op \in GradientOps)

\* C7: in a train pass, when the criterion's output has no "loss" key,
\* handle_batch raises, and that batch has made no backward pass, no
\* clipping, no optimizer step, no zero_grad and no meter update.
C7_MissingLossIsFatal ==
    (hook = "handle_batch" /\ is_train_loader /\ "loss" \notin criterion_keys) =>
        /\ error = KeyError("loss")
        /\ stage = "failed"
        /\ GradientCalls(trace) = <<>>
        /\ Calls(trace, "_grad_clip") = 0
        /\ \A i \in DOMAIN meters : meters[i].n = Len(pass_log)

\* C7 witness: a train batch has been handled with a criterion that returns
\* no "loss".
C7_Witness ==
    /\ hook = "handle_batch"
    /\ is_train_loader
    /\ "loss" \notin criterion_keys
    /\ error = KeyError("loss")

\* The ordered calls of a train batch the claim C8 speaks of.
OrderedOps == GradientOps \cup {"_grad_clip", "aux_loss"}

\* C8: a train batch that got through its optimisation steps (its criterion
\* returns a loss and its model has the auxiliary loss) made these
\* calls in this order: primary backward, gradient clipping (_grad_clip,
\* which clips when max_norm is set), primary step, auxiliary loss,
\* auxiliary backward, auxiliary step, primary zero_grad, auxiliary
\* zero_grad.
C8_TrainOrder ==
    (hook = "handle_batch" /\ is_train_loader /\ "loss" \in criterion_keys
        /\ has_aux_loss) =>
        SelectSeq(trace, LAMBDA e : e.op \in OrderedOps) =
            <<Ev("backward", "loss"), Ev("_grad_clip", "runner")>>
                \o (IF grad_clip = "max_norm"
                    THEN <<Ev("clip_grad_norm_", Model)>> ELSE <<>>)
                \o <<Ev("step", "net"),
                     Ev("aux_loss", Model),
                     Ev("backward", "aux_loss"),
                     Ev("step", "aux"),
                     Ev("zero_grad", "net"),
                     Ev("zero_grad", "aux")>>

\* C8 witness: a train batch has completed with clipping configured.
C8_Witness ==
    /\ hook = "handle_batch"
    /\ is_train_loader
    /\ error = NoError
    /\ grad_clip = "max_norm"
    /\ Calls(trace, "step") = 2

\* C9: backward passes, clipping, optimizer steps and zero_grad are made by
\* handle_batch of a train loader only: a valid or an infer batch makes none.
C9_NoGradientOutsideTrain ==
    /\ GradientCalls(trace) # <<>> => (hook = "handle_batch" /\ is_train_loader)
    /\ (hook = "handle_batch" /\ (is_valid_loader \/ is_infer_loader)) =>
           GradientCalls(trace) = <<>>

\* C9 witness: a valid batch has completed, its auxiliary loss computed.
C9_Witness ==
    /\ hook = "handle_batch"
    /\ is_valid_loader
    /\ error = NoError
    /\ Calls(trace, "aux_loss") = 1

\* The keys the batch mapping d holds besides the measured metrics.
LossKeySet == {"loss", "aux_loss", "lmbda"} \cup criterion_keys

C11_MetersPerPass ==
    hook = "on_loader_end" =>
        /\ DOMAIN loader_metrics = DeclaredKeySet
        /\ \A i \in DOMAIN meters :
               /\ meters[i].n = Len(pass_log)
               /\ meters[i].num_samples = SumN(pass_log)
        /\ \A k \in DeclaredKeySet :
               loader_metrics[k] = IF pass_log = <<>> THEN RatInt(0)
                                   ELSE WeightedMean(pass_log, k)

\* C11 witness: the second pass of the run has ended after one batch, with
\* meters that have seen that one batch only.
C11_Witness ==
    /\ hook = "on_loader_end"
    /\ pass_step = 2
    /\ Len(pass_log) = 1
    /\ \A i \in DOMAIN meters : meters[i].n = 1
    /\ DOMAIN loader_metrics = DeclaredKeySet

\* C12 (as stated): a train batch on a model without the auxiliary-loss
\* capability raises before the primary optimizer has stepped: the failed
\* batch has made no step of optimizer["net"].
C12_FailsBeforePrimaryStep ==
    (hook = "handle_batch" /\ is_train_loader /\ ~has_aux_loss
        /\ "loss" \in criterion_keys) =>
        /\ error # NoError
        /\ CallsOn(trace, "step", "net") = 0

\* A list without its repeated elements, the first occurrence of each kept.
RECURSIVE Dedup(_)
Dedup(seq) ==
    IF seq = <<>> THEN <<>>
    ELSE LET init == SubSeq(seq, 1, Len(seq) - 1)
             last == seq[Len(seq)]
         IN  IF last \in Range(init) THEN Dedup(init)
             ELSE Append(Dedup(init), last)

\* C13 (as stated): the reordered table's columns are the hover fields
\* without their repetitions (first occurrence kept), in the given order,
\* then the remaining columns in their original order; every column appears
\* once, also when a hover field is repeated.
C13_HoverFieldsDeduplicated ==
    (call.fn = "_reorder_dataframe_columns"
        /\ Range(call.head) \subseteq Range(call.df.columns)) =>
        /\ result.error = NoError
        /\ result.value.columns =
               Dedup(call.head)
                   \o SelectSeq(call.df.columns,
                                LAMBDA x : x \notin Range(call.head))
        /\ \A c \in Range(call.df.columns) :
               Cardinality({i \in DOMAIN result.value.columns :
                               result.value.columns[i] = c}) = 1

\* The sinks that implement a logging method.
CapableSinks(method) == {i \in DOMAIN loggers : method \in loggers[i]}

\* C15: log_figure and log_distribution call the method once on each sink
\* that implements it, in the sinks' order, call it on no other sink, and
\* raise nothing, whatever the sinks (also when none implements it).
C15_CapableSinksOnly ==
    call.fn \in {"log_figure", "log_distribution"} =>
        /\ result.error = NoError
        /\ Len(sink_calls) = Cardinality(CapableSinks(call.fn))
        /\ \A i \in CapableSinks(call.fn) :
               Cardinality({j \in DOMAIN sink_calls :
                               sink_calls[j] = SinkCall(i, call.fn, call.tag)}) = 1
        /\ \A j \in DOMAIN sink_calls :
               sink_calls[j].sink \in CapableSinks(call.fn)
        /\ \A j, k \in DOMAIN sink_calls :
               j < k => sink_calls[j].sink < sink_calls[k].sink

\* C15 witness: log_figure on two sinks of which only the second implements
\* it: one call, on the second sink.
C15_Witness ==
    /\ call.fn = "log_figure"
    /\ Len(loggers) = 2
    /\ "log_figure" \notin loggers[1]
    /\ "log_figure" \in loggers[2]
    /\ sink_calls = <<SinkCall(2, "log_figure", call.tag)>>
    /\ result.error = NoError

\* The tags of the artifact calls that reached the i-th sink, in order.
ArtifactsOfSink(i) ==
    LET got == SelectSeq(sink_calls,
                         LAMBDA c : c.sink = i /\ c.op = "log_artifact")
    IN  [j \in DOMAIN got |-> got[j].tag]

\* The provenance artifacts, in the order they are recorded.
ProvenanceTags ==
    <<"compressai_git_diff", "compressai_train_git_diff",
      "pip_list.txt", "requirements.txt">>

C18_TracesAndLayout ==
    call.fn = "plot_rd" =>
        LET fig == result.value
            given == call.layout_kwargs
            series == call.series_list
        IN  /\ result.error = NoError
            /\ Len(fig.data) = Len(series)
            /\ \A i \in DOMAIN series :
                   /\ fig.data[i].name = series[i].name
                   /\ fig.data[i].x = series[i].x
                   /\ fig.data[i].y = series[i].y
            /\ DOMAIN fig.layout =
                   DOMAIN given
                       \cup {"xaxis_title", "yaxis_title", "xaxis", "yaxis"}
            /\ \A k \in DOMAIN given : fig.layout[k] = given[k]
            /\ "xaxis_title" \notin DOMAIN given =>
                   fig.layout["xaxis_title"] = "Bit-rate [bpp]"
            /\ "yaxis_title" \notin DOMAIN given =>
                   fig.layout["yaxis_title"] = "PSNR [dB]"
            /\ "xaxis" \notin DOMAIN given =>
                   fig.layout["xaxis"] =
                       [range |-> <<RatInt(0), Rat(225, 100)>>,
                        tick0 |-> RatInt(0), dtick |-> Rat(25, 100)]
            /\ "yaxis" \notin DOMAIN given =>
                   fig.layout["yaxis"] =
                       [range |-> <<RatInt(26), RatInt(41)>>,
                        tick0 |-> RatInt(26), dtick |-> RatInt(1)]

\* C18 witness: two series plotted with a bitrate axis of the caller's: the
\* figure has two traces, the caller's bitrate axis and the default quality
\* axis.
C18_Witness ==
    /\ call.fn = "plot_rd"
    /\ Len(call.series_list) = 2
    /\ call.series_list[1] # call.series_list[2]
    /\ "xaxis" \in DOMAIN call.layout_kwargs
    /\ Len(result.value.data) = 2
    /\ result.value.layout["xaxis"] = call.layout_kwargs["xaxis"]
    /\ result.value.layout["yaxis"].dtick = RatInt(1)

\* The rows of the reference series of a list of codecs, in the list's order.
RECURSIVE ReferenceRowsOf(_)
ReferenceRowsOf(codecs) ==
    IF codecs = <<>> THEN <<>>
    ELSE compressai_dataframe(Head(codecs)).rows \o ReferenceRowsOf(Tail(codecs))

\* The number of points of the reference series of a list of codecs.
RECURSIVE SumPoints(_)
SumPoints(codecs) ==
    IF codecs = <<>> THEN 0
    ELSE ReferencePoints[Head(codecs)] + SumPoints(Tail(codecs))

\* C14: whenever the loader metrics hold loss, bpp and psnr, _log_rd_figure
\* builds a table of (sum of the reference series' row counts) + 1 rows:
\* the reference rows first, in the codecs' order, then the one row of the
\* current model, whose name is the model's name with "*" appended and
\* differs from the name of every reference row.
C14_ComparisonRows ==
    (call.fn = "_log_rd_figure"
        /\ {"loss", "bpp", "psnr"} \subseteq DOMAIN loader_metrics) =>
        /\ "df" \in DOMAIN result
        /\ LET rows == result.df.rows
               n == Len(rows)
           IN  /\ n = SumPoints(call.codecs) + 1
               /\ SubSeq(rows, 1, n - 1) = ReferenceRowsOf(call.codecs)
               /\ rows[n].name = ModelName \o "*"
               /\ rows[n].epoch = epoch_step
               /\ \A i \in 1..(n - 1) :
                      /\ rows[i].name = call.codecs[
                             CHOOSE c \in DOMAIN call.codecs :
                                 /\ SumPoints(SubSeq(call.codecs, 1, c - 1)) < i
                                 /\ i <= SumPoints(SubSeq(call.codecs, 1, c))]
                      /\ rows[i].name # rows[n].name

\* C14 witness: a comparison with the series of vtm (3 points) and of
\* bmshj2018-factorized (2 points), in this order, after an infer pass: six
\* rows, the last one the current model's.
C14_Witness ==
    /\ call.fn = "_log_rd_figure"
    /\ call.codecs = <<"vtm", "bmshj2018-factorized">>
    /\ "df" \in DOMAIN result
    /\ Len(result.df.rows) = 6
    /\ result.df.rows[1].name = "vtm"
    /\ result.df.rows[4].name = "bmshj2018-factorized"
    /\ result.df.rows[6].name = "bmshj2018-factorized*"

\* C17 (as stated): whatever the class of the model, every update(),
\* aux_loss and inference call of the runner is made on the unwrapped model.
C17_CallsTargetUnwrappedModel ==
    \A i \in DOMAIN trace :
        trace[i].op \in {"update", "aux_loss", "inference"} =>
            trace[i].obj = "module"

\* The calls of a train batch from the primary backward pass to the primary
\* step.
PrimaryOps(evs) ==
    SelectSeq(evs, LAMBDA e : \/ e = Ev("backward", "loss")
                              \/ e.op = "clip_grad_norm_"
                              \/ e = Ev("step", "net"))

\* C19: a train batch whose criterion returns a loss clips the gradients
\* once, between the primary backward pass and the primary step, when the
\* optimizer configuration has a grad_clip entry with a max_norm, and not
\* at all otherwise; without grad_clip or without max_norm the primary
\* step still runs and nothing is raised on that account (the batch
\* completes when the model has the auxiliary loss and the batch's metrics
\* hold every declared key).
C19_ClipIffMaxNorm ==
    (hook = "handle_batch" /\ is_train_loader /\ "loss" \in criterion_keys) =>
        /\ Calls(trace, "clip_grad_norm_") =
               IF grad_clip = "max_norm" THEN 1 ELSE 0
        /\ PrimaryOps(trace) =
               IF grad_clip = "max_norm"
               THEN <<Ev("backward", "loss"), Ev("clip_grad_norm_", Model),
                      Ev("step", "net")>>
               ELSE <<Ev("backward", "loss"), Ev("step", "net")>>
        /\ (has_aux_loss /\ TrainKeySet \subseteq LossKeySet) => error = NoError

\* C19 witness: a train batch has completed with a grad_clip entry that has
\* no max_norm: no clipping, and the primary step has run.
C19_Witness ==
    /\ hook = "handle_batch"
    /\ is_train_loader
    /\ grad_clip = "no_max_norm"
    /\ error = NoError
    /\ Calls(trace, "clip_grad_norm_") = 0
    /\ CallsOn(trace, "step", "net") = 1

\* C20: as long as no batch has failed, the primary steps so far, the
\* auxiliary steps so far and the train batches handled so far are equal in
\* number, and between two hooks (so before and after every handle_batch,
\* whatever the loader) no optimizer's parameters hold gradients.
C20_StepsAndGradients ==
    stage # "failed" =>
        /\ steps_ahead = [net |-> 0, aux |-> 0]
        /\ grads = [net |-> FALSE, aux |-> FALSE]
        /\ (hook = "handle_batch" /\ is_train_loader) =>
               /\ CallsOn(trace, "step", "net") = 1
               /\ CallsOn(trace, "step", "aux") = 1
        /\ (hook = "handle_batch" /\ ~is_train_loader) =>
               Calls(trace, "step") = 0

\* C20 witness: the second train batch of the second pass has completed:
\* each optimizer has stepped in it and no gradients are left.
C20_Witness ==
    /\ hook = "handle_batch"
    /\ is_train_loader
    /\ pass_step = 2
    /\ batch_step = 2
    /\ error = NoError
    /\ Calls(trace, "step") = 2
    /\ steps_ahead = [net |-> 0, aux |-> 0]
    /\ grads = [net |-> FALSE, aux |-> FALSE]

\* C21: in an open loader pass in which every batch so far has completed,
\* every declared key has exactly one meter, and every meter has been
\* updated once per batch of the pass with the batch's size as weight: all
\* meters have the same update count (the batches so far) and the same
\* total weight (the samples so far).
C21_OneUpdatePerBatch ==
    stage = "loader" =>
        /\ MeterKeys(meters) = DeclaredKeySet
        /\ \A i \in DOMAIN meters :
               /\ meters[i].n = batch_step
               /\ meters[i].n = Len(pass_log)
               /\ meters[i].num_samples = SumN(pass_log)
        /\ \A i, j \in DOMAIN meters :
               /\ meters[i].n = meters[j].n
               /\ meters[i].num_samples = meters[j].num_samples
        /\ hook = "handle_batch" =>
               pass_log[Len(pass_log)].n = batch_size

\* C21 witness: two batches of sizes 1 and 2 have completed in a pass: every
\* meter has two updates and a total weight of three samples.
C21_Witness ==
    /\ stage = "loader"
    /\ hook = "handle_batch"
    /\ Len(pass_log) = 2
    /\ pass_log[1].n = 1
    /\ pass_log[2].n = 2
    /\ \A i \in DOMAIN meters : meters[i].n = 2 /\ meters[i].num_samples = 3

\* The declared keys the batch's metric mapping has not.
AbsentDeclaredKeys == DeclaredKeySet \ DOMAIN batch_metrics

\* C22: a batch whose metric mapping was emitted without one of the keys
\* declared for the loader is not passed over: handle_batch raises KeyError
\* for an absent declared key, the run fails, and the batch is not counted
\* as folded into the meters.
C22_AbsentDeclaredKeyRaises ==
    (hook = "handle_batch" /\ DOMAIN batch_metrics # {}
        /\ AbsentDeclaredKeys # {}) =>
        /\ error.type = "KeyError"
        /\ error.key \in AbsentDeclaredKeys
        /\ stage = "failed"
        /\ MeterOf(meters, error.key).n = Len(pass_log)
        /\ \A i \in DOMAIN pass_log : DeclaredKeySet \subseteq DOMAIN pass_log[i].d

\* C22 witness: a batch of a criterion that returns no bpp_loss has been
\* handled: KeyError for bpp_loss, although loss was emitted.
C22_Witness ==
    /\ hook = "handle_batch"
    /\ "loss" \in DOMAIN batch_metrics
    /\ "bpp_loss" \notin DOMAIN batch_metrics
    /\ error = KeyError("bpp_loss")
    /\ stage = "failed"

====
